---- MODULE Spec2Model ----
(***************************************************************************)
(* FreshFarm storefront: the cart provider (CartContext), its normalizer   *)
(* optimizeCartItems, the delivery packer packForDelivery, the             *)
(* recommendation hook useRecommendations and ApiClient.request.           *)
(*                                                                         *)
(* JavaScript values are encoded as follows.                               *)
(*   number      [nan |-> FALSE, v |-> n]  or  NaN == [nan |-> TRUE, ...]  *)
(*               (only where NaN can arise: ids); plain integers elsewhere *)
(*   string      a sequence of one-character strings, <<"1", "2">>         *)
(*   optional    <<>> for undefined, <<x>> for a present value x           *)
(***************************************************************************)
EXTENDS Integers, Sequences, FiniteSets, Bags, TLC

VARIABLES items, storage, effects, now, last, inputs, hook, calls, session

\* The cart provider, and what is known of the call made last.
cartVars == <<items, storage, effects, now, last>>

\* useRecommendations: the inputs of its render, its state, and the remote
\* calls that have not come back.
hookVars == <<inputs, hook, calls>>

\* ApiClient: what localStorage holds of the login.
apiVars == <<session>>

vars == <<items, storage, effects, now, last, inputs, hook, calls, session>>

----------------------------------------------------------------------------
(* Bounds of the model. *)

\* Largest quantity a cart line may reach (addToCart/updateQuantity guards).
MaxQty == 2
\* Largest value of the millisecond clock Date.now().
MaxNow == 2
\* Most lines of a cart handed to useRecommendations, and most entries of a
\* response of the recommendation service.
MaxRecCart == 2
MaxResponseLen == 2
\* Longest list a stored text holds at the mount.
MaxStored == 2
\* Longest list handed to the normalizer on its own.
MaxListLen == 3
\* Longest list of any lines that removeFromCart and updateQuantity are
\* given on their own.
MaxAnyCart == 2
\* Most lines, and largest quantity of a line, of a cart handed to the packer
\* on its own.
MaxPackLines == 2
MaxPackQty == 2

----------------------------------------------------------------------------
(* JavaScript numbers and Number(). *)

Num(n) == [nan |-> FALSE, v |-> n]

NaN == [nan |-> TRUE, v |-> 0]

\* a === b on numbers: NaN is equal to nothing, itself included.
StrictEq(a, b) == ~a.nan /\ ~b.nan /\ a.v = b.v

Digits == {"0", "1", "2", "3", "4", "5", "6", "7", "8", "9"}

DigitVal(c) ==
  CASE c = "0" -> 0 [] c = "1" -> 1 [] c = "2" -> 2 [] c = "3" -> 3
    [] c = "4" -> 4 [] c = "5" -> 5 [] c = "6" -> 6 [] c = "7" -> 7
    [] c = "8" -> 8 [] c = "9" -> 9

\* The value of a string of decimal digits, most significant first.
RECURSIVE DecimalValue(_)
DecimalValue(chars) ==
  IF chars = <<>> THEN 0
  ELSE 10 * DecimalValue(SubSeq(chars, 1, Len(chars) - 1))
       + DigitVal(chars[Len(chars)])

\* Raw values as a catalog source may supply them for Product.id.
RawNum(n) == [type |-> "number", num |-> n, chars |-> <<>>]

RawNumber(n) == RawNum(Num(n))

RawString(s) == [type |-> "string", num |-> NaN, chars |-> s]

\* Number(x): a number is itself; the empty string is 0; a string of decimal
\* digits is its value; any other string is NaN.
ToNumber(raw) ==
  IF raw.type = "number" THEN raw.num
  ELSE IF raw.chars = <<>> THEN Num(0)
  ELSE IF \A i \in 1..Len(raw.chars) : raw.chars[i] \in Digits
       THEN Num(DecimalValue(raw.chars))
  ELSE NaN

----------------------------------------------------------------------------
(* Products the pages hand to addToCart.  A line keeps the fields the cart, *)
(* the packer and the scorer read; image, description, tags and the sale    *)
(* fields are copied by the spread and never read by them.                  *)

Product(id, name, category, price, weightKg, volumeCm3) ==
  [id |-> id, name |-> name, category |-> category, price |-> price,
   weightKg |-> weightKg, volumeCm3 |-> volumeCm3]

Products ==
  { Product(RawString(<<"2">>), "kale", "veg", 100, <<3>>, <<30000>>),
    Product(RawNumber(2), "kale", "veg", 100, <<3>>, <<30000>>),
    Product(RawString(<<"x">>), "herb", "veg", 50, <<>>, <<>>) }

\* Quantities callers pass: the default 1, larger ones, zero and a negative.
AddQuantities == (-1)..MaxQty

\* Ids callers pass to removeFromCart and updateQuantity.
ProductIds == {Num(n) : n \in 1..2} \cup {Num(-t) : t \in 1..MaxNow}

----------------------------------------------------------------------------
(* Sequence helpers. *)

RECURSIVE SelectSeqIdx(_, _, _)
\* Array.prototype.findIndex for the test "Number(it.id) === id"; 0 for -1.
SelectSeqIdx(s, id, i) ==
  IF i > Len(s) THEN 0
  ELSE IF StrictEq(s[i].id, id) THEN i
  ELSE SelectSeqIdx(s, id, i + 1)

\* The sequences over S of length at most n.
SeqsUpTo(S, n) == UNION {[1..k -> S] : k \in 0..n}

\* The bag of the elements of a sequence.
RECURSIVE SeqToBag(_)
SeqToBag(s) ==
  IF s = <<>> THEN EmptyBag
  ELSE SeqToBag(Tail(s)) (+) SetToBag({Head(s)})

----------------------------------------------------------------------------
(* The normalizer. *)

\* Faulty variant: compares the line totals price * quantity.
EfficiencyCompareTotals(a, b) == a.price * a.quantity - b.price * b.quantity

\* The sign of a.price / a.quantity - b.price / b.quantity for the lines the
\* filter lets through (both quantities > 0): cross-multiplied, so that the
\* integers of the model decide it exactly as the quotients do.
EfficiencyCompare(a, b) == a.price * b.quantity - b.price * a.quantity

\* Faulty variant: a sort that is not stable, x goes in front of the
\* elements it compares equal to.
InsertBeforeEqual(sorted, x) ==
  LET p == Cardinality({j \in 1..Len(sorted) :
                          EfficiencyCompare(sorted[j], x) < 0})
  IN SubSeq(sorted, 1, p) \o <<x>> \o SubSeq(sorted, p + 1, Len(sorted))

\* One step of a stable sort: x goes behind every element that does not
\* compare greater than it.
InsertByEfficiency(sorted, x) ==
  LET p == Cardinality({j \in 1..Len(sorted) :
                          EfficiencyCompare(sorted[j], x) <= 0})
  IN SubSeq(sorted, 1, p) \o <<x>> \o SubSeq(sorted, p + 1, Len(sorted))

\* Array.prototype.sort with the efficiency comparator (stable).
RECURSIVE SortByEfficiency(_)
SortByEfficiency(s) ==
  IF s = <<>> THEN <<>>
  ELSE InsertByEfficiency(SortByEfficiency(SubSeq(s, 1, Len(s) - 1)),
                          s[Len(s)])

\* Faulty variant: lets a quantity of zero through.
NonNegativeQuantity(item) == item.quantity >= 0

PositiveQuantity(item) == item.quantity > 0

\* Faulty variant: sorts without filtering.
optimizeCartItemsNoFilter(cartItems) == SortByEfficiency(cartItems)

optimizeCartItems(cartItems) ==
  SortByEfficiency(SelectSeq(cartItems, PositiveQuantity))

----------------------------------------------------------------------------
(* Persistence.  The text under "farm_cart" is kept as what JSON.parse      *)
(* makes of it: [t, elems] with t one of "invalid" (text that does not     *)
(* parse), "empty" (the empty text), "null", "number", "string", "object"  *)
(* and "array"; the elements of an array are [t, fields], with the fields  *)
(* of an object as a record (<<>> for {}).                                 *)

\* localStorage holds no "farm_cart" key.
Absent == [present |-> FALSE, value |-> [t |-> "none", elems |-> <<>>]]

\* The key holds the text of a JSON value.
Stored(json) == [present |-> TRUE, value |-> json]

JsonScalar(t) == [t |-> t, elems |-> <<>>]

JsonArray(elems) == [t |-> "array", elems |-> elems]

JsonElement(t) == [t |-> t, fields |-> <<>>]

JsonObject(fields) == [t |-> "object", fields |-> fields]

\* JSON.stringify of a number: NaN is written as null.
JsonNumber(n) == IF n.nan THEN [t |-> "null", v |-> 0] ELSE [t |-> "number", v |-> n.v]

\* JSON.stringify(items): every line with its id as JSON writes it.
JsonStringify(cartItems) ==
  JsonArray([i \in 1..Len(cartItems) |->
               JsonObject([cartItems[i] EXCEPT
                             !.id = JsonNumber(cartItems[i].id)])])

\* Number() of a parsed JSON value: Number(null) is 0.
NumberOfJson(j) == IF j.t = "null" THEN Num(0) ELSE Num(j.v)

\* One element of the parsed list through the map of the load effect: the
\* spread of the element, id through Number() (NaN when there is none), the
\* quantity kept when it is a number and 1 when there is none.
normalizeStoredItem(it) ==
  IF it.t = "object"
  THEN [id |-> IF "id" \in DOMAIN it.fields
               THEN NumberOfJson(it.fields.id) ELSE NaN,
        quantity |-> IF "quantity" \in DOMAIN it.fields
                     THEN it.fields.quantity ELSE 1] @@ it.fields
  ELSE [id |-> NaN, quantity |-> 1]

\* The map of the load effect over the parsed list.
normalizeStored(parsed) ==
  [i \in 1..Len(parsed.elems) |-> normalizeStoredItem(parsed.elems[i])]

\* The try block of the load effect throws: JSON.parse rejects the text,
\* the value parsed has no map method, or an element is null ("it.id" of
\* null).
loadThrows(json) ==
  \/ json.t # "array"
  \/ \E i \in 1..Len(json.elems) : json.elems[i].t = "null"

----------------------------------------------------------------------------
(* The cart provider. *)

\* What the last call was: the operation, the id as the caller passed it and
\* as a number, the quantity passed, whether a line with the id was found,
\* the list the call started from, the options passed and the value returned.
Call(op, arg, id, quantity, existing, before, options, ret) ==
  [op |-> op, arg |-> arg, id |-> id, quantity |-> quantity,
   existing |-> existing, before |-> before, options |-> options,
   ret |-> ret]

NoOptions == [maxWeightKg |-> <<>>, maxVolumeCm3 |-> <<>>]

NoCall(op) == Call(op, RawNum(NaN), NaN, 0, FALSE, <<>>, NoOptions, <<>>)

\* The effects of a commit, in the order of their declaration.  The persist
\* effect writes the list of the render that declared it.
LoadOf == [kind |-> "load", items |-> <<>>]

\* Faulty variant: the effect writes the list of the render before, as an
\* effect with a stale closure does.
PersistOfStale(cartItems) == [kind |-> "persist", items |-> items]

PersistOf(cartItems) == [kind |-> "persist", items |-> cartItems]

\* A setItems call brings a new render, whose [items] effect is the persist
\* effect of the new list.
SchedulePersist(pending, cartItems) == Append(pending, PersistOf(cartItems))

\* No component uses the recommendation hook.
NoInputs ==
  [allProducts |-> <<>>,
   options |-> [browsingHistory |-> <<>>, purchasedIds |-> <<>>,
                minRecommendations |-> <<>>, maxRecommendations |-> <<>>],
   hasGetRecommendations |-> FALSE]

\* Nobody is logged in: localStorage holds neither authToken nor userData.
LoggedOut == session = [authToken |-> FALSE, userData |-> FALSE]

HookIdle ==
  /\ inputs = NoInputs
  /\ hook = [recommendations |-> <<>>, loading |-> FALSE, error |-> <<>>,
             localCompute |-> <<>>, effect |-> "done"]
  /\ calls = <<>>

Init ==
  /\ items = <<>>
  /\ storage = Absent
  /\ effects = <<LoadOf, PersistOf(<<>>)>>
  /\ now = 1
  /\ last = NoCall("mount")
  /\ HookIdle
  /\ LoggedOut

\* Date.now() moves on; the clock is read by addToCart alone, so it is
\* enough to let time pass between two clicks.
Tick ==
  /\ effects = <<>>
  /\ now < MaxNow
  /\ now' = now + 1
  /\ UNCHANGED <<items, storage, effects, last>>
  /\ UNCHANGED hookVars
  /\ UNCHANGED apiVars


\* Every caller is the click handler of one button and makes one call; the
\* commit and its effects are flushed before the next click is handled.
CanMutate == effects = <<>>

\* The load effect of the mount.  Without a stored text (getItem gives null
\* or the empty text) nothing happens; a throw in the try block is caught
\* and logged and the list stays as it is; otherwise the normalized list is
\* installed.
LoadEffect ==
  /\ effects # <<>> /\ Head(effects).kind = "load"
  /\ IF ~storage.present \/ storage.value.t = "empty"
     THEN /\ effects' = Tail(effects)
          /\ last' = NoCall("load")
          /\ UNCHANGED items
     ELSE IF loadThrows(storage.value)
     THEN /\ effects' = Tail(effects)
          /\ last' = NoCall("load caught")
          /\ UNCHANGED items
     ELSE /\ items' = normalizeStored(storage.value)
          /\ effects' = SchedulePersist(Tail(effects),
                                        normalizeStored(storage.value))
          /\ last' = NoCall("load")
  /\ UNCHANGED <<storage, now>>
  /\ UNCHANGED hookVars
  /\ UNCHANGED apiVars

\* The persist effect, setItem succeeding.
PersistEffect ==
  /\ effects # <<>> /\ Head(effects).kind = "persist"
  /\ storage' = Stored(JsonStringify(Head(effects).items))
  /\ effects' = Tail(effects)
  /\ last' = NoCall("persist")
  /\ UNCHANGED <<items, now>>
  /\ UNCHANGED hookVars
  /\ UNCHANGED apiVars

\* The persist effect, setItem throwing (the quota is exceeded): the error
\* is caught and logged and the stored text stays as it was.
PersistCaught ==
  /\ effects # <<>> /\ Head(effects).kind = "persist"
  /\ effects' = Tail(effects)
  /\ last' = NoCall("persist caught")
  /\ UNCHANGED <<items, storage, now>>
  /\ UNCHANGED hookVars
  /\ UNCHANGED apiVars

normalizedId(product) ==
  LET parsedId == ToNumber(product.id)
  IN IF parsedId.nan THEN Num(-now) ELSE parsedId

\* Faulty variant: looks for the line with "it.id === product.id", without
\* Number(), so that a string id never finds its line.
addToCartUpdaterRawId(currentItems, product, quantity) ==
  LET id == normalizedId(product)
      existingIndex == IF product.id.type = "number"
                       THEN SelectSeqIdx(currentItems, product.id.num, 1)
                       ELSE 0
  IN IF existingIndex # 0
     THEN optimizeCartItems(
            [i \in 1..Len(currentItems) |->
               IF i = existingIndex
               THEN [currentItems[i] EXCEPT
                       !.quantity = currentItems[i].quantity + quantity]
               ELSE currentItems[i]])
     ELSE optimizeCartItems(
            Append(currentItems,
                   [product EXCEPT !.id = id] @@ [quantity |-> quantity]))

\* Faulty variant: a new line starts with quantity 1 whatever was asked for.
addToCartUpdaterOne(currentItems, product, quantity) ==
  LET id == normalizedId(product)
      existingIndex == SelectSeqIdx(currentItems, id, 1)
  IN IF existingIndex # 0
     THEN optimizeCartItems(
            [i \in 1..Len(currentItems) |->
               IF i = existingIndex
               THEN [currentItems[i] EXCEPT
                       !.quantity = currentItems[i].quantity + quantity]
               ELSE currentItems[i]])
     ELSE optimizeCartItems(
            Append(currentItems,
                   [product EXCEPT !.id = id] @@ [quantity |-> 1]))

\* Faulty variant: the line found takes the quantity asked for instead of
\* growing by it.
addToCartUpdaterReplace(currentItems, product, quantity) ==
  LET id == normalizedId(product)
      existingIndex == SelectSeqIdx(currentItems, id, 1)
  IN IF existingIndex # 0
     THEN optimizeCartItems(
            [i \in 1..Len(currentItems) |->
               IF i = existingIndex
               THEN [currentItems[i] EXCEPT !.quantity = quantity]
               ELSE currentItems[i]])
     ELSE optimizeCartItems(
            Append(currentItems,
                   [product EXCEPT !.id = id] @@ [quantity |-> quantity]))

addToCartUpdater(currentItems, product, quantity) ==
  LET id == normalizedId(product)
      existingIndex == SelectSeqIdx(currentItems, id, 1)
  IN IF existingIndex # 0
     THEN optimizeCartItems(
            [i \in 1..Len(currentItems) |->
               IF i = existingIndex
               THEN [currentItems[i] EXCEPT
                       !.quantity = currentItems[i].quantity + quantity]
               ELSE currentItems[i]])
     ELSE optimizeCartItems(
            Append(currentItems,
                   [product EXCEPT !.id = id] @@ [quantity |-> quantity]))

addToCart(product, quantity) ==
  /\ CanMutate
  /\ \A i \in 1..Len(addToCartUpdater(items, product, quantity)) :
        addToCartUpdater(items, product, quantity)[i].quantity <= MaxQty
  /\ items' = addToCartUpdater(items, product, quantity)
  /\ effects' = SchedulePersist(effects, items')
  /\ last' = Call("addToCart", product.id, normalizedId(product), quantity,
                   SelectSeqIdx(items, normalizedId(product), 1) # 0,
                   items, NoOptions, <<>>)
  /\ UNCHANGED <<storage, now>>
  /\ UNCHANGED hookVars
  /\ UNCHANGED apiVars

\* Faulty variant: the filter keeps the lines of the id and drops the
\* others.
removeFromCartUpdaterKeeping(currentItems, productId) ==
  LET Keep(it) == StrictEq(it.id, productId)
  IN optimizeCartItems(SelectSeq(currentItems, Keep))

removeFromCartUpdater(currentItems, productId) ==
  LET Keep(it) == ~StrictEq(it.id, productId)
  IN optimizeCartItems(SelectSeq(currentItems, Keep))

removeFromCart(productId) ==
  /\ CanMutate
  /\ items' = removeFromCartUpdater(items, productId)
  /\ effects' = SchedulePersist(effects, items')
  /\ last' = Call("removeFromCart", RawNum(productId), productId, 0,
                   SelectSeqIdx(items, productId, 1) # 0,
                   items, NoOptions, <<>>)
  /\ UNCHANGED <<storage, now>>
  /\ UNCHANGED hookVars
  /\ UNCHANGED apiVars

\* Faulty variant: the line of the id grows by the quantity instead of
\* taking it.
updateQuantityUpdaterAdding(currentItems, productId, quantity) ==
  optimizeCartItems(
    [i \in 1..Len(currentItems) |->
       IF StrictEq(currentItems[i].id, productId)
       THEN [currentItems[i] EXCEPT !.quantity = @ + quantity]
       ELSE currentItems[i]])

updateQuantityUpdater(currentItems, productId, quantity) ==
  optimizeCartItems(
    [i \in 1..Len(currentItems) |->
       IF StrictEq(currentItems[i].id, productId)
       THEN [currentItems[i] EXCEPT !.quantity = quantity]
       ELSE currentItems[i]])

\* Faulty variant: a quantity of zero or less is ignored and the list stays
\* as it is.
updateQuantityIgnoring(productId, quantity) ==
  /\ CanMutate
  /\ items' = IF quantity <= 0
              THEN items
              ELSE updateQuantityUpdater(items, productId, quantity)
  /\ effects' = SchedulePersist(effects, items')
  /\ last' = Call("updateQuantity", RawNum(productId), productId, quantity,
                   SelectSeqIdx(items, productId, 1) # 0,
                   items, NoOptions, <<>>)
  /\ UNCHANGED <<storage, now>>
  /\ UNCHANGED hookVars
  /\ UNCHANGED apiVars

updateQuantity(productId, quantity) ==
  /\ CanMutate
  /\ items' = IF quantity <= 0
              THEN removeFromCartUpdater(items, productId)
              ELSE updateQuantityUpdater(items, productId, quantity)
  /\ effects' = SchedulePersist(effects, items')
  /\ last' = Call("updateQuantity", RawNum(productId), productId, quantity,
                   SelectSeqIdx(items, productId, 1) # 0,
                   items, NoOptions, <<>>)
  /\ UNCHANGED <<storage, now>>
  /\ UNCHANGED hookVars
  /\ UNCHANGED apiVars

clearCart ==
  /\ CanMutate
  /\ items' = <<>>
  /\ storage' = Absent
  /\ effects' = SchedulePersist(effects, <<>>)
  /\ last' = Call("clearCart", RawNum(NaN), NaN, 0, FALSE, items, NoOptions,
                  <<>>)
  /\ UNCHANGED now
  /\ UNCHANGED hookVars
  /\ UNCHANGED apiVars

----------------------------------------------------------------------------
(* The delivery packer. *)

DefaultMaxWeightKg == 10

DefaultMaxVolumeCm3 == 40000

\* x ?? d for an optional x.
OrElse(x, d) == IF x = <<>> THEN d ELSE x[1]

\* Faulty variant: the loop starts at 1 and makes one copy too few.
UnitsOfFromOne(it) == [i \in 1..(it.quantity - 1) |-> [it EXCEPT !.quantity = 1]]

\* The for loop of the expansion: quantity copies of the line, each with
\* quantity 1 (none when the quantity is not positive).
UnitsOf(it) == [i \in 1..it.quantity |-> [it EXCEPT !.quantity = 1]]

RECURSIVE expand(_)
expand(cartItems) ==
  IF cartItems = <<>> THEN <<>>
  ELSE UnitsOf(Head(cartItems)) \o expand(Tail(cartItems))

metric(it) ==
  IF it.volumeCm3 # <<>> THEN it.volumeCm3[1]
  ELSE IF it.weightKg # <<>> THEN it.weightKg[1] * 1000
  ELSE 0

\* One step of the stable sort by metric(b) - metric(a): x goes behind every
\* unit whose metric is not smaller than its own.
InsertBySize(sorted, x) ==
  LET p == Cardinality({j \in 1..Len(sorted) :
                          metric(x) - metric(sorted[j]) <= 0})
  IN SubSeq(sorted, 1, p) \o <<x>> \o SubSeq(sorted, p + 1, Len(sorted))

RECURSIVE bySizeDesc(_)
bySizeDesc(expanded) ==
  IF expanded = <<>> THEN <<>>
  ELSE InsertBySize(bySizeDesc(SubSeq(expanded, 1, Len(expanded) - 1)),
                    expanded[Len(expanded)])

\* Faulty variant: the scan looks at the weight alone.
FitsWeightOnly(box, unit, maxWeightKg, maxVolumeCm3) ==
  box.totalWeightKg + OrElse(unit.weightKg, 0) <= maxWeightKg

\* Faulty variant: the scan looks at the volume alone.
FitsVolumeOnly(box, unit, maxWeightKg, maxVolumeCm3) ==
  box.totalVolumeCm3 + OrElse(unit.volumeCm3, 0) <= maxVolumeCm3

\* The test of the scan: the box has room for the unit.
Fits(box, unit, maxWeightKg, maxVolumeCm3) ==
  /\ box.totalWeightKg + OrElse(unit.weightKg, 0) <= maxWeightKg
  /\ box.totalVolumeCm3 + OrElse(unit.volumeCm3, 0) <= maxVolumeCm3

\* Faulty variant: the scan does not stop at the first box that has room
\* and the unit ends in the last one that has.
placeUnitLastFit(boxes, unit, maxWeightKg, maxVolumeCm3) ==
  LET fitting == {b \in 1..Len(boxes) :
                    Fits(boxes[b], unit, maxWeightKg, maxVolumeCm3)}
  IN IF fitting # {}
     THEN LET b == CHOOSE k \in fitting : \A j \in fitting : k >= j
          IN [boxes EXCEPT
                ![b].items = Append(@, unit),
                ![b].totalWeightKg = @ + OrElse(unit.weightKg, 0),
                ![b].totalVolumeCm3 = @ + OrElse(unit.volumeCm3, 0)]
     ELSE Append(boxes,
                 [boxId |-> Len(boxes) + 1,
                  items |-> <<unit>>,
                  totalWeightKg |-> OrElse(unit.weightKg, 0),
                  totalVolumeCm3 |-> OrElse(unit.volumeCm3, 0)])

\* Faulty variant: the unit goes in front of the units the box holds.
placeUnitInFront(boxes, unit, maxWeightKg, maxVolumeCm3) ==
  LET fitting == {b \in 1..Len(boxes) :
                    Fits(boxes[b], unit, maxWeightKg, maxVolumeCm3)}
  IN IF fitting # {}
     THEN LET b == CHOOSE k \in fitting : \A j \in fitting : k <= j
          IN [boxes EXCEPT
                ![b].items = <<unit>> \o @,
                ![b].totalWeightKg = @ + OrElse(unit.weightKg, 0),
                ![b].totalVolumeCm3 = @ + OrElse(unit.volumeCm3, 0)]
     ELSE Append(boxes,
                 [boxId |-> Len(boxes) + 1,
                  items |-> <<unit>>,
                  totalWeightKg |-> OrElse(unit.weightKg, 0),
                  totalVolumeCm3 |-> OrElse(unit.volumeCm3, 0)])

\* The body of the forEach: the unit goes into the first box that has room,
\* or into a new box behind the others.
placeUnit(boxes, unit, maxWeightKg, maxVolumeCm3) ==
  LET fitting == {b \in 1..Len(boxes) :
                    Fits(boxes[b], unit, maxWeightKg, maxVolumeCm3)}
  IN IF fitting # {}
     THEN LET b == CHOOSE k \in fitting : \A j \in fitting : k <= j
          IN [boxes EXCEPT
                ![b].items = Append(@, unit),
                ![b].totalWeightKg = @ + OrElse(unit.weightKg, 0),
                ![b].totalVolumeCm3 = @ + OrElse(unit.volumeCm3, 0)]
     ELSE Append(boxes,
                 [boxId |-> Len(boxes) + 1,
                  items |-> <<unit>>,
                  totalWeightKg |-> OrElse(unit.weightKg, 0),
                  totalVolumeCm3 |-> OrElse(unit.volumeCm3, 0)])

\* The boxes after the first n units of the sorted list have been placed.
RECURSIVE packUnits(_, _, _, _)
packUnits(units, n, maxWeightKg, maxVolumeCm3) ==
  IF n = 0 THEN <<>>
  ELSE placeUnit(packUnits(units, n - 1, maxWeightKg, maxVolumeCm3),
                 units[n], maxWeightKg, maxVolumeCm3)

packResult(cartItems, options) ==
  LET maxWeightKg == OrElse(options.maxWeightKg, DefaultMaxWeightKg)
      maxVolumeCm3 == OrElse(options.maxVolumeCm3, DefaultMaxVolumeCm3)
      units == bySizeDesc(expand(cartItems))
  IN packUnits(units, Len(units), maxWeightKg, maxVolumeCm3)

\* Capacity options callers pass: none, either one, both.
PackOptions ==
  { NoOptions,
    [maxWeightKg |-> <<5>>, maxVolumeCm3 |-> <<>>],
    [maxWeightKg |-> <<>>, maxVolumeCm3 |-> <<70000>>],
    [maxWeightKg |-> <<2>>, maxVolumeCm3 |-> <<20000>>] }

\* packForDelivery reads the list of the current render.
packForDelivery(options) ==
  /\ effects = <<>>
  /\ last' = Call("packForDelivery", RawNum(NaN), NaN, 0, FALSE, items,
                  options, packResult(items, options))
  /\ UNCHANGED <<items, storage, effects, now>>
  /\ UNCHANGED hookVars
  /\ UNCHANGED apiVars

Next ==
  \/ Tick
  \/ LoadEffect
  \/ PersistEffect
  \/ \E product \in Products, quantity \in AddQuantities :
       addToCart(product, quantity)
  \/ \E productId \in ProductIds : removeFromCart(productId)
  \/ \E productId \in ProductIds, quantity \in 0..MaxQty :
       updateQuantity(productId, quantity)
  \/ clearCart
  \/ \E options \in PackOptions : packForDelivery(options)

Spec == Init /\ [][Next]_vars

----------------------------------------------------------------------------
(* The cart and its stored snapshot, with a storage that may refuse a     *)
(* write.  The list never depends on the stored text after the mount, so  *)
(* Spec above lets every write succeed; here the products are two with    *)
(* numeric ids and the clock stands still.                                 *)

StorageProducts ==
  { Product(RawNumber(1), "apple", "fruit", 100, <<>>, <<>>),
    Product(RawNumber(2), "kale", "veg", 100, <<3>>, <<30000>>) }

StorageIds == {Num(1), Num(2)}

NextStorage ==
  \/ LoadEffect
  \/ PersistEffect
  \/ PersistCaught
  \/ \E product \in StorageProducts : addToCart(product, 1)
  \/ \E productId \in StorageIds : removeFromCart(productId)
  \/ \E productId \in StorageIds, quantity \in {0, MaxQty} :
       updateQuantity(productId, quantity)
  \/ clearCart

\* React runs every effect of a commit: the pending load effect runs, and
\* the pending persist effect runs, its write succeeding or not.
SpecStorage ==
  /\ Init
  /\ [][NextStorage]_vars
  /\ WF_vars(LoadEffect)
  /\ WF_vars(PersistEffect \/ PersistCaught)

----------------------------------------------------------------------------
(* The mount of the provider over a stored text of any kind.               *)

\* Elements a stored list may hold: lines as the provider writes them, a
\* line with quantity 0, an object that is no line, a number, null.
StoredElements ==
  { JsonObject(Product(JsonNumber(Num(1)), "apple", "fruit", 100, <<>>, <<>>)
                 @@ [quantity |-> 2]),
    JsonObject(Product(JsonNumber(Num(2)), "kale", "veg", 100, <<3>>,
                       <<30000>>) @@ [quantity |-> 1]),
    JsonObject(Product(JsonNumber(Num(2)), "kale", "veg", 100, <<3>>,
                       <<30000>>) @@ [quantity |-> 0]),
    JsonObject([name |-> "apple"]),
    JsonObject(<<>>),
    JsonElement("number"),
    JsonElement("null") }

\* What the key may hold at the mount.
StoredValues ==
  {Absent}
    \cup {Stored(JsonScalar(t)) :
            t \in {"invalid", "empty", "null", "number", "string", "object"}}
    \cup {Stored(JsonArray(l)) : l \in SeqsUpTo(StoredElements, MaxStored)}

InitLoad ==
  /\ items = <<>>
  /\ storage \in StoredValues
  /\ effects = <<LoadOf, PersistOf(<<>>)>>
  /\ now = 1
  /\ last = NoCall("mount")
  /\ HookIdle
  /\ LoggedOut

NextLoad ==
  \/ LoadEffect
  \/ PersistEffect
  \/ PersistCaught

SpecLoad == InitLoad /\ [][NextLoad]_vars

----------------------------------------------------------------------------
(* The normalizer on its own: any list of lines, normalized and normalized  *)
(* again.                                                                   *)

Line(id, name, price, quantity, weightKg, volumeCm3) ==
  [id |-> Num(id), name |-> name, category |-> "veg", price |-> price,
   quantity |-> quantity, weightKg |-> weightKg, volumeCm3 |-> volumeCm3]

\* Lines of two products at two prices, with quantities that are negative,
\* zero and positive: 100/1 = 200/2, so lines of equal efficiency occur.
NormalizerLines ==
  { Line(id, IF id = 1 THEN "kale" ELSE "herb", price, quantity, <<>>, <<>>) :
      id \in 1..2, price \in {100, 200}, quantity \in (-1)..2 }


InitNormalizer ==
  /\ items \in SeqsUpTo(NormalizerLines, MaxListLen)
  /\ storage = Absent
  /\ effects = <<>>
  /\ now = 1
  /\ last = NoCall("input")
  /\ HookIdle
  /\ LoggedOut

normalize ==
  /\ last.op = "input"
  /\ items' = optimizeCartItems(items)
  /\ last' = Call("optimizeCartItems", RawNum(NaN), NaN, 0, FALSE, items,
                  NoOptions,
                  optimizeCartItems(items))
  /\ UNCHANGED <<storage, effects, now>>
  /\ UNCHANGED hookVars
  /\ UNCHANGED apiVars

normalizeAgain ==
  /\ last.op = "optimizeCartItems"
  /\ items' = optimizeCartItems(items)
  /\ last' = Call("optimizeCartItems twice", RawNum(NaN), NaN, 0, FALSE, items,
                  NoOptions,
                  optimizeCartItems(items))
  /\ UNCHANGED <<storage, effects, now>>
  /\ UNCHANGED hookVars
  /\ UNCHANGED apiVars

NextNormalizer == normalize \/ normalizeAgain

SpecNormalizer == InitNormalizer /\ [][NextNormalizer]_vars

----------------------------------------------------------------------------
(* removeFromCart and updateQuantity on their own: one call on any list of *)
(* lines, normalized or not.                                               *)

AnyCartIds == {Num(1), Num(2)}

InitAnyCart ==
  /\ items \in SeqsUpTo(NormalizerLines, MaxAnyCart)
  /\ storage = Absent
  /\ effects = <<>>
  /\ now = 1
  /\ last = NoCall("input")
  /\ HookIdle
  /\ LoggedOut

NextAnyCart ==
  \/ \E productId \in AnyCartIds : removeFromCart(productId)
  \/ \E productId \in AnyCartIds, quantity \in (-1)..MaxQty :
       updateQuantity(productId, quantity)

SpecAnyCart == InitAnyCart /\ [][NextAnyCart]_vars

----------------------------------------------------------------------------
(* The mount of the provider over a snapshot the provider wrote, with the  *)
(* effects of the mount run once, or run twice as React.StrictMode runs    *)
(* them in development: right after the first run, before the setItems of  *)
(* the load effect is applied.  Every write succeeds.                      *)

\* The lines of a stored cart: three products, in any quantity.
MountLines ==
  { Line(1, "apple", 100, q, <<>>, <<>>) : q \in 1..MaxQty }
    \cup { Line(2, "kale", 100, q, <<3>>, <<30000>>) : q \in 1..MaxQty }
    \cup { Line(3, "herb", 50, q, <<>>, <<>>) : q \in 1..MaxQty }

\* The stored carts: one line or more, every id once.
MountCarts ==
  {c \in SeqsUpTo(MountLines, MaxStored) :
     /\ c # <<>>
     /\ \A i, j \in 1..Len(c) : i # j => c[i].id # c[j].id}

\* The second run of the mount effects is still to come.
RemountOf == [kind |-> "remount", items |-> <<>>]

InitMount ==
  /\ items = <<>>
  /\ storage \in {Stored(JsonStringify(c)) : c \in MountCarts}
  /\ effects \in {<<LoadOf, PersistOf(<<>>)>>,
                   <<LoadOf, PersistOf(<<>>), RemountOf>>}
  /\ now = 1
  /\ last = NoCall("mount")
  /\ HookIdle
  /\ LoggedOut

\* The second run of the mount effects.  The load effect reads the stored
\* text as the first run left it and, unless there is none or the try
\* block throws, calls setItems with its list; the persist effect writes
\* the list of the mount render, the empty one.  Then React applies the
\* setItems calls of both runs in order, in one render, whose persist
\* effect takes the place of the one pending.
StrictRemount ==
  /\ effects # <<>> /\ Head(effects).kind = "remount"
  /\ LET sets == /\ storage.present /\ storage.value.t # "empty"
                 /\ ~loadThrows(storage.value)
     IN /\ items' = IF sets THEN normalizeStored(storage.value) ELSE items
        /\ effects' = IF sets THEN <<PersistOf(items')>> ELSE Tail(effects)
  /\ storage' = Stored(JsonStringify(<<>>))
  /\ last' = NoCall("remount")
  /\ UNCHANGED now
  /\ UNCHANGED hookVars
  /\ UNCHANGED apiVars

NextMount ==
  \/ LoadEffect
  \/ PersistEffect
  \/ StrictRemount

\* React runs every effect of a commit.
SpecMount == InitMount /\ [][NextMount]_vars /\ WF_vars(NextMount)

----------------------------------------------------------------------------
(* The packer on its own: any cart of lines with positive quantities.      *)

\* A line by weight alone, one by volume alone, one with both, one that is
\* heavier than the default box carries, one with neither.
PackLines ==
  UNION { { Line(1, "apple", 100, q, <<3>>, <<>>),
            Line(2, "kale", 100, q, <<>>, <<30000>>),
            Line(3, "melon", 80, q, <<6>>, <<10000>>),
            Line(4, "feed", 50, q, <<12>>, <<>>),
            Line(5, "herb", 20, q, <<>>, <<>>) } : q \in 1..MaxPackQty }

InitPack ==
  /\ items \in SeqsUpTo(PackLines, MaxPackLines)
  /\ storage = Absent
  /\ effects = <<>>
  /\ now = 1
  /\ last = NoCall("input")
  /\ HookIdle
  /\ LoggedOut

NextPack == \E options \in PackOptions : packForDelivery(options)

SpecPack == InitPack /\ [][NextPack]_vars

----------------------------------------------------------------------------
(* The recommendation scorer: the local computation of useRecommendations. *)

DefaultMinRecommendations == 5

DefaultMaxRecommendations == 10

\* A catalog product.  tags is <<>> when absent, else an array of strings or
\* one delimited string, given as its pieces and the delimiters between them.
CatalogProduct(id, name, category, tags) ==
  [id |-> id, name |-> name, category |-> category, tags |-> tags]

TagArray(arr) == <<[kind |-> "array", parts |-> arr]>>

TagString(pieces) == <<[kind |-> "string", parts |-> pieces]>>

\* String.prototype.toLowerCase on the tag texts of the catalog.
ToLowerCase(t) ==
  CASE t = "Fresh" -> "fresh"
    [] t = "Sweet" -> "sweet"
    [] t = " Sweet" -> " sweet"
    [] t = "Leafy" -> "leafy"
    [] OTHER -> t

\* String.prototype.trim on the tag texts of the catalog.
Trim(t) ==
  CASE t = " Sweet" -> "Sweet"
    [] t = " sweet" -> "sweet"
    [] t = " " -> ""
    [] OTHER -> t

TagDelimiters == {",", "|", ";"}

NonEmptyText(t) == t # ""

\* split(/[,|;]/): the pieces between the delimiters.
SplitTags(pieces) ==
  LET NotDelimiter(t) == t \notin TagDelimiters
  IN SelectSeq(pieces, NotDelimiter)

normalizeTags(p) ==
  IF p.tags = <<>> THEN <<>>
  ELSE IF p.tags[1].kind = "array"
       THEN [i \in 1..Len(p.tags[1].parts) |->
               ToLowerCase(p.tags[1].parts[i])]
  ELSE LET split == SplitTags(p.tags[1].parts)
       IN SelectSeq([i \in 1..Len(split) |-> ToLowerCase(Trim(split[i]))],
                    NonEmptyText)

\* The simulated purchase history.
mockPurchaseHistory ==
  << <<1, 2>>, <<1, 3>>, <<2, 3>>, <<1, 2, 3>>, <<1, 2>>, <<2, 3>> >>

\* productById.get(pid): the last catalog product whose Number(id) is pid
\* (a Map keeps the value set last); <<>> when there is none.
productById(allProducts, pid) ==
  LET hits == {i \in 1..Len(allProducts) : ToNumber(allProducts[i].id) = pid}
  IN IF hits = {} THEN <<>>
     ELSE <<allProducts[CHOOSE i \in hits : \A j \in hits : j <= i]>>

\* The ids of the cart as the Set cartIds holds them.
cartIdsOf(cartItems) == {cartItems[i].id : i \in 1..Len(cartItems)}

\* The ids of options.purchasedIds as the Set purchasedIds holds them.
purchasedIdsOf(options) ==
  {Num(options.purchasedIds[i]) : i \in 1..Len(options.purchasedIds)}

\* The context of one local computation: the catalog, the two exclusion
\* sets, and the options.
Context(cartItems, allProducts, options) ==
  [cartItems |-> cartItems, allProducts |-> allProducts,
   cartIds |-> cartIdsOf(cartItems),
   purchasedIds |-> purchasedIdsOf(options),
   browsingHistory |-> options.browsingHistory,
   MIN |-> OrElse(options.minRecommendations, DefaultMinRecommendations),
   MAX |-> OrElse(options.maxRecommendations, DefaultMaxRecommendations)]

\* The accumulator of the local computation: recs and seen.
NoRecs == [recs |-> <<>>, seen |-> {}]

push(ctx, acc, pid, reason, score) ==
  IF pid \in ctx.cartIds \/ pid \in acc.seen \/ pid \in ctx.purchasedIds
  THEN acc
  ELSE LET prod == productById(ctx.allProducts, pid)
       IN IF prod = <<>> THEN acc
          ELSE [recs |-> Append(acc.recs,
                                [product |-> prod[1], reason |-> reason,
                                 score |-> score]),
                seen |-> acc.seen \cup {pid}]

\* The concatenation of the sequences of a sequence.
RECURSIVE Flatten(_)
Flatten(ss) == IF ss = <<>> THEN <<>> ELSE Head(ss) \o Flatten(Tail(ss))

\* The elements of a sequence in the order of their first occurrence: the
\* keys of a Map or the values of a Set filled from it.
RECURSIVE InsertionOrder(_)
InsertionOrder(s) ==
  IF s = <<>> THEN <<>>
  ELSE LET front == InsertionOrder(SubSeq(s, 1, Len(s) - 1))
       IN IF s[Len(s)] \in {front[i] : i \in 1..Len(front)} THEN front
          ELSE Append(front, s[Len(s)])

\* The entries of a counting Map filled from s: key and count, in the
\* order of insertion.
CountEntries(s) ==
  LET keys == InsertionOrder(s)
  IN [k \in 1..Len(keys) |->
        [key |-> keys[k],
         count |-> Cardinality({i \in 1..Len(s) : s[i] = keys[k]})]]

\* sort(([, a], [, b]) => b - a), stable.
RECURSIVE SortByCountDesc(_)
SortByCountDesc(entries) ==
  IF entries = <<>> THEN <<>>
  ELSE LET sorted == SortByCountDesc(SubSeq(entries, 1, Len(entries) - 1))
           x == entries[Len(entries)]
           p == Cardinality({j \in 1..Len(sorted) :
                               x.count - sorted[j].count <= 0})
       IN SubSeq(sorted, 1, p) \o <<x>> \o SubSeq(sorted, p + 1, Len(sorted))

\* The co-purchase counts: over the baskets that share an item with the
\* cart, every id that is not in the cart.
boughtTogether(ctx) ==
  LET InCart(id) == Num(id) \in ctx.cartIds
      Shares(h) == \E i \in 1..Len(h) : InCart(h[i])
      NotInCart(id) == ~InCart(id)
      baskets == SelectSeq(mockPurchaseHistory, Shares)
      counted == Flatten([b \in 1..Len(baskets) |->
                            SelectSeq(baskets[b], NotInCart)])
  IN SortByCountDesc(CountEntries(counted))

RECURSIVE pushBoughtTogether(_, _, _)
pushBoughtTogether(ctx, acc, entries) ==
  IF entries = <<>> THEN acc
  ELSE pushBoughtTogether(
         ctx,
         push(ctx, acc, Num(Head(entries).key), "bought together",
              Head(entries).count),
         Tail(entries))

\* The tags of the products of a list of ids, in the order a Set takes
\* them up.
tagsOfIds(ctx, ids) ==
  InsertionOrder(
    Flatten([i \in 1..Len(ids) |->
               LET bp == productById(ctx.allProducts, Num(ids[i]))
               IN IF bp = <<>> THEN <<>> ELSE normalizeTags(bp[1])]))

\* The loop over the catalog that adds the products sharing a tag with the
\* browsing history, from product n on.
RECURSIVE pushBrowsing(_, _, _, _)
pushBrowsing(ctx, acc, btags, n) ==
  IF n > Len(ctx.allProducts) THEN acc
  ELSE LET p == ctx.allProducts[n]
           pid == ToNumber(p.id)
           tags == normalizeTags(p)
           shared == Cardinality({i \in 1..Len(tags) :
                                    tags[i] \in {btags[k] : k \in 1..Len(btags)}})
       IN IF pid \in ctx.cartIds \/ pid \in acc.seen
          THEN pushBrowsing(ctx, acc, btags, n + 1)
          ELSE pushBrowsing(
                 ctx,
                 IF shared > 0
                 THEN push(ctx, acc, pid, "browsing history", shared)
                 ELSE acc,
                 btags, n + 1)

\* The backfill loop over the catalog, from product n on; it ends at the
\* first product it has looked at with MAX recommendations in hand.
RECURSIVE pushSameCategory(_, _, _)
pushSameCategory(ctx, acc, n) ==
  IF n > Len(ctx.allProducts) THEN acc
  ELSE LET p == ctx.allProducts[n]
           pid == ToNumber(p.id)
           cartCategories == {ctx.cartItems[i].category :
                                i \in 1..Len(ctx.cartItems)}
       IN IF pid \in ctx.cartIds \/ pid \in acc.seen
          THEN pushSameCategory(ctx, acc, n + 1)
          ELSE LET next == IF p.category \in cartCategories
                           THEN push(ctx, acc, pid, "same category", 1)
                           ELSE acc
               IN IF Len(next.recs) >= ctx.MAX THEN next
                  ELSE pushSameCategory(ctx, next, n + 1)

\* The branch for a cart with lines.
withCart(ctx) ==
  LET together == pushBoughtTogether(ctx, NoRecs, boughtTogether(ctx))
      btags == tagsOfIds(ctx, ctx.browsingHistory)
      browsed == IF Len(ctx.browsingHistory) > 0 /\ Len(btags) > 0
                 THEN pushBrowsing(ctx, together, btags, 1)
                 ELSE together
  IN IF Len(browsed.recs) < ctx.MIN
     THEN pushSameCategory(ctx, browsed, 1)
     ELSE browsed

\* The seed tags of the branch for the empty cart: those of the browsing
\* history, else the three most frequent tags of the catalog.
seedTags(ctx) ==
  LET fromHistory == tagsOfIds(ctx, ctx.browsingHistory)
      tagFreq == SortByCountDesc(CountEntries(
                   Flatten([i \in 1..Len(ctx.allProducts) |->
                              normalizeTags(ctx.allProducts[i])])))
      top == SubSeq(tagFreq, 1, IF Len(tagFreq) < 3 THEN Len(tagFreq) ELSE 3)
  IN IF Len(fromHistory) > 0 THEN fromHistory
     ELSE [i \in 1..Len(top) |-> top[i].key]

\* The candidates of a seed tag: the catalog products that carry it and
\* are not seen yet.
candidatesOf(ctx, acc, tag) ==
  LET Carries(p) ==
        /\ tag \in {normalizeTags(p)[i] : i \in 1..Len(normalizeTags(p))}
        /\ ToNumber(p.id) \notin ctx.cartIds
        /\ ToNumber(p.id) \notin acc.seen
  IN SelectSeq(ctx.allProducts, Carries)

\* What slice(0, 2) of the shuffled candidates can be: the shuffle is a
\* uniform permutation, so any two candidates in either order.
firstTwoOf(candidates) ==
  IF Len(candidates) = 0 THEN {<<>>}
  ELSE IF Len(candidates) = 1 THEN {candidates}
  ELSE {<<candidates[ij[1]], candidates[ij[2]]>> :
          ij \in {x \in (1..Len(candidates)) \X (1..Len(candidates)) :
                    x[1] # x[2]}}

RECURSIVE pushSameTag(_, _, _)
pushSameTag(ctx, acc, picked) ==
  IF picked = <<>> THEN acc
  ELSE pushSameTag(ctx,
                   push(ctx, acc, ToNumber(Head(picked).id), "same tag", 1),
                   Tail(picked))

\* The accumulators the loop over the seed tags can end with, from tag n
\* on; the loop ends after the first tag with MAX recommendations in hand.
RECURSIVE emptyCart(_, _, _, _)
emptyCart(ctx, acc, tags, n) ==
  IF n > Len(tags) THEN {acc}
  ELSE UNION {
         LET next == pushSameTag(ctx, acc, picked)
         IN IF Len(next.recs) >= ctx.MAX THEN {next}
            ELSE emptyCart(ctx, next, tags, n + 1) :
         picked \in firstTwoOf(candidatesOf(ctx, acc, tags[n])) }

reasonPriority(reason) ==
  CASE reason = "bought together" -> 4
    [] reason = "browsing history" -> 3
    [] reason = "same tag" -> 2
    [] reason = "same category" -> 1
    [] OTHER -> 0

\* The product names of the catalog in the order localeCompare puts them.
NameOrder == <<"apple", "Banana", "chard", "feed", "herb", "kale">>

\* a.localeCompare(b): negative, zero or positive.
localeCompare(a, b) ==
  LET rank(n) == CHOOSE i \in 1..Len(NameOrder) : NameOrder[i] = n
  IN rank(a) - rank(b)

\* Faulty variant: the scores are compared the wrong way round.
compareRecsAscending(a, b) ==
  IF b.score # a.score THEN a.score - b.score
  ELSE IF reasonPriority(b.reason) # reasonPriority(a.reason)
       THEN reasonPriority(b.reason) - reasonPriority(a.reason)
  ELSE localeCompare(a.product.name, b.product.name)

\* The comparator of the final sort.
compareRecs(a, b) ==
  IF b.score # a.score THEN b.score - a.score
  ELSE IF reasonPriority(b.reason) # reasonPriority(a.reason)
       THEN reasonPriority(b.reason) - reasonPriority(a.reason)
  ELSE localeCompare(a.product.name, b.product.name)

RECURSIVE sortRecs(_)
sortRecs(recs) ==
  IF recs = <<>> THEN <<>>
  ELSE LET sorted == sortRecs(SubSeq(recs, 1, Len(recs) - 1))
           x == recs[Len(recs)]
           p == Cardinality({j \in 1..Len(sorted) :
                               compareRecs(sorted[j], x) <= 0})
       IN SubSeq(sorted, 1, p) \o <<x>> \o SubSeq(sorted, p + 1, Len(sorted))

Min(a, b) == IF a < b THEN a ELSE b

Max(a, b) == IF a > b THEN a ELSE b

\* recs.slice(0, Math.max(MIN, Math.min(MAX, recs.length))) of the sorted
\* list.
finish(ctx, recs) ==
  LET sorted == sortRecs(recs)
      end == Max(ctx.MIN, Min(ctx.MAX, Len(sorted)))
  IN SubSeq(sorted, 1, Min(end, Len(sorted)))

\* The values localCompute can take for the inputs of a render.
localComputeValues(cartItems, allProducts, options) ==
  LET ctx == Context(cartItems, allProducts, options)
  IN IF Len(cartItems) > 0
     THEN {finish(ctx, withCart(ctx).recs)}
     ELSE {finish(ctx, acc.recs) :
             acc \in emptyCart(ctx, NoRecs, seedTags(ctx), 1)}

----------------------------------------------------------------------------
(* useRecommendations: the effect that fetches, and the remote call.       *)

\* The catalog the Cart page passes: ids as numbers and as a string, tags
\* as arrays, as delimited strings and absent, names in both cases.
Catalog ==
  << CatalogProduct(RawNumber(1), "apple", "fruit",
                    TagArray(<<"Fresh", "fruit">>)),
     CatalogProduct(RawString(<<"2">>), "Banana", "fruit",
                    TagString(<<"fresh", ",", " Sweet">>)),
     CatalogProduct(RawNumber(3), "kale", "veg", TagArray(<<"Leafy">>)),
     CatalogProduct(RawNumber(4), "chard", "veg",
                    TagString(<<"leafy", "|", "fresh">>)),
     CatalogProduct(RawNumber(5), "feed", "feed", <<>>),
     CatalogProduct(RawNumber(6), "herb", "veg",
                    TagArray(<<"leafy", "fresh">>)) >>

\* The cart line of a catalog product.
LineOf(p) ==
  [id |-> ToNumber(p.id), name |-> p.name, category |-> p.category,
   price |-> 100, quantity |-> 1, weightKg |-> <<>>, volumeCm3 |-> <<>>]

\* Carts of the first three catalog products, no product twice.
RecCarts ==
  {c \in SeqsUpTo({LineOf(Catalog[i]) : i \in 1..3}, MaxRecCart) :
     \A i, j \in 1..Len(c) : i # j => c[i] # c[j]}

\* Options the page passes: with and without browsing history and purchased
\* ids, with the default counts and with counts of its own.
RecOptions ==
  { [browsingHistory |-> b, purchasedIds |-> p,
     minRecommendations |-> m[1], maxRecommendations |-> m[2]] :
      b \in {<<>>, <<4>>},
      p \in {<<>>, <<3>>, <<4, 6>>},
      m \in {<< <<>>, <<>> >>, << <<1>>, <<2>> >>, << <<3>>, <<1>> >>} }

\* Entries a recommendation service may send: known and unknown products,
\* with and without reason and score.
ServerEntries ==
  { [id |-> RawNumber(1), reason |-> <<>>, score |-> <<>>],
    [id |-> RawString(<<"2">>), reason |-> <<"trending">>, score |-> <<7>>],
    [id |-> RawNumber(4), reason |-> <<>>, score |-> <<2>>],
    [id |-> RawNumber(9), reason |-> <<>>, score |-> <<>>] }

\* What the remote call can come back with: a rejection, a value that is
\* not a list, a list of entries.
ServerResponses ==
  {[kind |-> "rejected", list |-> <<>>], [kind |-> "object", list |-> <<>>]}
    \cup {[kind |-> "list", list |-> l] :
            l \in SeqsUpTo(ServerEntries, MaxResponseLen)}

InitRec ==
  /\ items \in RecCarts
  /\ storage = Absent
  /\ effects = <<>>
  /\ now = 1
  /\ last = NoCall("render")
  /\ inputs \in [allProducts : {Catalog}, options : RecOptions,
                 hasGetRecommendations : BOOLEAN]
  /\ hook \in [recommendations : {<<>>}, loading : {FALSE}, error : {<<>>},
               localCompute : localComputeValues(items, inputs.allProducts,
                                                 inputs.options),
               effect : {"pending"}]
  /\ calls = <<>>
  /\ LoggedOut

\* allProducts.find((p) => Number(p.id) === Number(r.id)): the first
\* product whose id is the entry's; <<>> when there is none.
findProduct(allProducts, rawId) ==
  LET hits == {i \in 1..Len(allProducts) :
                 StrictEq(ToNumber(allProducts[i].id), ToNumber(rawId))}
  IN IF hits = {} THEN <<>>
     ELSE <<allProducts[CHOOSE i \in hits : \A j \in hits : i <= j]>>

\* The map and filter(Boolean) over the entries of the response.
RECURSIVE mapResponse(_, _)
mapResponse(allProducts, res) ==
  IF res = <<>> THEN <<>>
  ELSE LET r == Head(res)
           prod == findProduct(allProducts, r.id)
       IN (IF prod = <<>> THEN <<>>
           ELSE <<[product |-> prod[1],
                   reason |-> OrElse(r.reason, "server"),
                   score |-> OrElse(r.score, 0)]>>)
          \o mapResponse(allProducts, Tail(res))

\* The effect: fetchRecommendations up to its await, or to its end when
\* the api client has no getRecommendations.  The hook tests for the method
\* at run time (typeof ... === "function"); the ApiClient of lib/api.ts
\* declares none, so inputs.hasGetRecommendations is TRUE only for a client
\* object that was given one.
fetchRecommendations ==
  /\ hook.effect = "pending"
  /\ IF inputs.hasGetRecommendations
     THEN /\ hook' = [hook EXCEPT !.loading = TRUE, !.error = <<>>,
                                  !.effect = "done"]
          /\ calls' = Append(calls,
                             [mounted |-> TRUE,
                              allProducts |-> inputs.allProducts,
                              maxRecommendations |->
                                OrElse(inputs.options.maxRecommendations,
                                       DefaultMaxRecommendations),
                              localCompute |-> hook.localCompute])
     ELSE /\ hook' = [hook EXCEPT !.loading = FALSE, !.error = <<>>,
                                  !.recommendations = hook.localCompute,
                                  !.effect = "done"]
          /\ UNCHANGED calls
  /\ last' = NoCall("fetchRecommendations")
  /\ UNCHANGED <<items, storage, effects, now, inputs>>
  /\ UNCHANGED apiVars

\* Faulty variant: an empty mapped list is set as it is, without the
\* fallback to the local computation.
recommendationsAfterNoFallback(call, response) ==
  LET mapped == IF response.kind = "list"
                THEN mapResponse(call.allProducts, response.list)
                ELSE <<>>
  IN SubSeq(mapped, 1, Min(call.maxRecommendations, Len(mapped)))

\* The recommendations fetchRecommendations sets once the call is back.
recommendationsAfter(call, response) ==
  LET mapped == IF response.kind = "list"
                THEN mapResponse(call.allProducts, response.list)
                ELSE <<>>
  IN IF Len(mapped) > 0
     THEN SubSeq(mapped, 1, Min(call.maxRecommendations, Len(mapped)))
     ELSE call.localCompute

\* A remote call comes back and fetchRecommendations runs to its end: it
\* sets the recommendations and ends loading, whatever its flag mounted
\* says (nothing reads the flag).  React drops the updates of a component
\* that is unmounted, and runs the cleanup and the effect of a commit in one
\* flush, so that no call comes back between the two.
resolveRemote(c, response) ==
  /\ c \in 1..Len(calls)
  /\ hook.effect # "pending"
  /\ IF hook.effect = "unmounted"
     THEN UNCHANGED hook
     ELSE hook' = [hook EXCEPT
                     !.recommendations =
                        recommendationsAfter(calls[c], response),
                     !.loading = FALSE]
  /\ calls' = SubSeq(calls, 1, c - 1) \o SubSeq(calls, c + 1, Len(calls))
  /\ last' = [call |-> calls[c], response |-> response]
               @@ NoCall("resolveRemote")
  /\ UNCHANGED <<items, storage, effects, now, inputs>>
  /\ UNCHANGED apiVars

\* The cleanup of the effect: the flag mounted of its invocation goes false.
cleanup(pending) == [c \in 1..Len(pending) |-> [pending[c] EXCEPT !.mounted = FALSE]]

\* The page renders the hook with a cart that has one line more: the
\* cleanup of the last effect runs, localCompute is computed anew and the
\* effect is to run again.
changeInputs(line) ==
  /\ hook.effect = "done"
  /\ Len(items) < MaxRecCart
  /\ \A i \in 1..Len(items) : items[i] # line
  /\ items' = Append(items, line)
  /\ hook' \in [recommendations : {hook.recommendations},
                loading : {hook.loading}, error : {hook.error},
                localCompute : localComputeValues(items', inputs.allProducts,
                                                  inputs.options),
                effect : {"pending"}]
  /\ calls' = cleanup(calls)
  /\ last' = NoCall("render")
  /\ UNCHANGED <<storage, effects, now, inputs>>
  /\ UNCHANGED apiVars

\* The component unmounts: the cleanup of the last effect runs.
unmount ==
  /\ hook.effect = "done"
  /\ hook' = [hook EXCEPT !.effect = "unmounted"]
  /\ calls' = cleanup(calls)
  /\ last' = NoCall("unmount")
  /\ UNCHANGED <<items, storage, effects, now, inputs>>
  /\ UNCHANGED apiVars

NextRec ==
  \/ fetchRecommendations
  \/ \E c \in 1..Len(calls), response \in ServerResponses :
       resolveRemote(c, response)

SpecRec == InitRec /\ [][NextRec]_vars

----------------------------------------------------------------------------
(* The hook over several renders: the cart grows while calls are out, and *)
(* the component unmounts.                                                 *)

\* What the calls come back with here: a rejection, and a list naming one
\* product or another.
StaleResponses ==
  { [kind |-> "rejected", list |-> <<>>],
    [kind |-> "list",
     list |-> <<[id |-> RawNumber(5), reason |-> <<>>, score |-> <<>>]>>],
    [kind |-> "list",
     list |-> <<[id |-> RawNumber(6), reason |-> <<"trending">>,
                 score |-> <<7>>]>>] }

InitStale ==
  /\ items = <<>>
  /\ storage = Absent
  /\ effects = <<>>
  /\ now = 1
  /\ last = NoCall("render")
  /\ inputs \in [allProducts : {Catalog}, options : {NoInputs.options},
                 hasGetRecommendations : BOOLEAN]
  /\ hook \in [recommendations : {<<>>}, loading : {FALSE}, error : {<<>>},
               localCompute : localComputeValues(items, inputs.allProducts,
                                                 inputs.options),
               effect : {"pending"}]
  /\ calls = <<>>
  /\ LoggedOut

NextStale ==
  \/ fetchRecommendations
  \/ \E c \in 1..Len(calls), response \in StaleResponses :
       resolveRemote(c, response)
  \/ \E k \in 1..3 : changeInputs(LineOf(Catalog[k]))
  \/ unmount

SpecStale == InitStale /\ [][NextStale]_vars

----------------------------------------------------------------------------
(* ApiClient.request.  A text is a string, "" when empty; null and         *)
(* undefined are <<>>.                                                     *)

\* new ApiError(status, message, errorCode, errors): errorCode ?? null, and
\* errors as given.
ApiError(status, message, errorCode, errors) ==
  [name |-> "ApiError", status |-> status, message |-> message,
   errorCode |-> errorCode, errors |-> errors]

\* a || b on texts: the empty text is falsy.
OrText(a, b) == IF a # "" THEN a ELSE b

\* What response.json() makes of the body of an error response.
JsonBody(parses, message, errorCode, errors) ==
  [parses |-> parses, message |-> message, errorCode |-> errorCode,
   errors |-> errors]

\* response.json().catch(() => null), then json?.message, json?.errorCode
\* and json?.errors: <<>> when the body does not parse.
FieldOf(json, field) == IF json.parses THEN json[field] ELSE <<>>

\* JSON.stringify(json): "null" for null, the text of the object else.
JsonText(json) == IF json.parses THEN "{...}" ELSE "null"

\* response.ok: the status is in 200..299.
IsOk(response) == response.status >= 200 /\ response.status <= 299

\* contentType.includes("application/json")
IsJson(response) == response.contentType = "application/json"

\* The try block of request once fetch has resolved with the response: the
\* value it returns or the error it throws.
tryBlock(response) ==
  IF ~IsOk(response)
  THEN IF IsJson(response)
       THEN [kind |-> "throw",
             error |-> ApiError(
               response.status,
               OrText(OrElse(FieldOf(response.json, "message"), ""),
                      OrText(JsonText(response.json),
                             OrText(response.statusText, "Request failed"))),
               FieldOf(response.json, "errorCode"),
               FieldOf(response.json, "errors"))]
       ELSE [kind |-> "throw",
             error |-> ApiError(
               response.status,
               OrText(response.text,
                      OrText(response.statusText, "Request failed")),
               <<>>, <<>>)]
  ELSE IF IsJson(response)
       THEN IF response.json.parses
            THEN [kind |-> "return", value |-> "json"]
            ELSE [kind |-> "throw",
                  error |-> [name |-> "SyntaxError",
                             message |-> "Unexpected token"]]
  ELSE [kind |-> "return", value |-> "text"]

\* The catch clause around the whole try block: whatever was thrown in it,
\* an ApiError of the block included, is thrown anew as
\* new ApiError(0, err?.message || "Network request failed").
catchClause(err) ==
  ApiError(0, OrText(err.message, "Network request failed"), <<>>, <<>>)

\* How request ends: fetch rejected (no response), or the try block ran
\* with the response.
requestOutcome(fetched) ==
  IF fetched = <<>>
  THEN [kind |-> "rejected",
        error |-> catchClause([name |-> "TypeError",
                               message |-> "Failed to fetch"])]
  ELSE IF tryBlock(fetched[1]).kind = "throw"
       THEN [kind |-> "rejected",
             error |-> catchClause(tryBlock(fetched[1]).error)]
  ELSE [kind |-> "resolved", value |-> tryBlock(fetched[1]).value]

\* The 401 branch: authToken and userData are removed.
sessionAfter(fetched) ==
  IF /\ fetched # <<>> /\ ~IsOk(fetched[1]) /\ IsJson(fetched[1])
     /\ fetched[1].status = 401
  THEN [authToken |-> FALSE, userData |-> FALSE]
  ELSE session

\* One call of request, from the fetch to the promise settling.
request(fetched) ==
  /\ session' = sessionAfter(fetched)
  /\ last' = [fetched |-> fetched, outcome |-> requestOutcome(fetched),
              sessionBefore |-> session] @@ NoCall("request")
  /\ UNCHANGED <<items, storage, effects, now>>
  /\ UNCHANGED hookVars

\* Bodies of error responses: one that does not parse, an empty object, a
\* message alone, a message with errorCode and errors.
ErrorBodies ==
  { JsonBody(FALSE, <<>>, <<>>, <<>>),
    JsonBody(TRUE, <<>>, <<>>, <<>>),
    JsonBody(TRUE, <<"Unauthorized">>, <<>>, <<>>),
    JsonBody(TRUE, <<"Invalid input">>, <<1001>>, <<"email">>) }

\* Responses of the backend: success, unauthorized, not found and server
\* error, as JSON and as text, with and without a status text.
Responses ==
  { [status |-> st, contentType |-> "application/json", statusText |-> tx,
     json |-> b, text |-> ""] :
      st \in {200, 401, 404, 500}, tx \in {"", "status text"}, b \in ErrorBodies }
    \cup
  { [status |-> st, contentType |-> "text/html", statusText |-> tx,
     json |-> JsonBody(FALSE, <<>>, <<>>, <<>>), text |-> t] :
      st \in {200, 401, 404, 500}, tx \in {"", "status text"},
      t \in {"", "Not Found"} }

InitApi ==
  /\ items = <<>>
  /\ storage = Absent
  /\ effects = <<>>
  /\ now = 1
  /\ last = NoCall("start")
  /\ HookIdle
  /\ session \in [authToken : BOOLEAN, userData : BOOLEAN]

\* fetch rejects, or resolves with a response.
NextApi ==
  \E fetched \in {<<>>} \cup {<<r>> : r \in Responses} : request(fetched)

SpecApi == InitApi /\ [][NextApi]_vars

----------------------------------------------------------------------------
(* How one invocation of fetchRecommendations ends (SpecRec).              *)

\* The entries of a response that name a product of the catalog.
knownEntries(call, response) ==
  IF response.kind # "list" THEN <<>>
  ELSE SelectSeq(response.list,
                 LAMBDA r : \E i \in 1..Len(call.allProducts) :
                   StrictEq(ToNumber(call.allProducts[i].id), ToNumber(r.id)))

\* The remote-mapped result: for every such entry, in order, the product
\* with the reason and score of the entry, "server" and 0 by default.
remoteMapped(call, response) ==
  LET known == knownEntries(call, response)
  IN [k \in 1..Len(known) |->
        [product |-> findProduct(call.allProducts, known[k].id)[1],
         reason |-> IF known[k].reason = <<>> THEN "server"
                    ELSE known[k].reason[1],
         score |-> IF known[k].score = <<>> THEN 0 ELSE known[k].score[1]]]

\* What a step of fetchRecommendations does: without the capability it
\* makes no call and sets the local computation; with it, it makes one
\* call; the call back, no further call is made and the step sets the
\* remote-mapped result (whole, or cut to its first maxRecommendations
\* entries) when that is not empty and the local computation in every
\* other case, with error null and loading false.
fetchStep(whole) ==
  /\ last'.op = "fetchRecommendations" =>
       IF inputs.hasGetRecommendations
       THEN /\ Len(calls') = Len(calls) + 1
            /\ hook'.recommendations = hook.recommendations
       ELSE /\ calls' = calls
            /\ hook'.recommendations = hook.localCompute
            /\ hook'.error = <<>> /\ ~hook'.loading
  /\ last'.op = "resolveRemote" =>
       /\ Len(calls') = Len(calls) - 1
       /\ LET call == last'.call
              mapped == remoteMapped(call, last'.response)
          IN IF Len(mapped) > 0
             THEN /\ hook'.recommendations =
                       IF whole THEN mapped
                       ELSE SubSeq(mapped, 1, Min(call.maxRecommendations,
                                                  Len(mapped)))
                  /\ ~hook'.loading
             ELSE /\ hook'.recommendations = call.localCompute
                  /\ hook'.error = <<>> /\ ~hook'.loading

----------------------------------------------------------------------------
(* Properties of the local computation (SpecRec).                          *)

\* The lists of candidates the branches of the local computation can
\* produce for the inputs of the render, before the sort and the slice.
candidateLists ==
  LET ctx == Context(items, inputs.allProducts, inputs.options)
  IN IF Len(items) > 0 THEN {withCart(ctx).recs}
     ELSE {acc.recs : acc \in emptyCart(ctx, NoRecs, seedTags(ctx), 1)}

\* C17: whatever minRecommendations and maxRecommendations are, the list
\* the local computation returns has at most maxRecommendations entries
\* (10 by default), and at most as many as the branches produced.
C17_AtMostMax ==
  /\ Len(hook.localCompute)
       <= OrElse(inputs.options.maxRecommendations, DefaultMaxRecommendations)
  /\ \E recs \in candidateLists : Len(hook.localCompute) <= Len(recs)

\* The product names of the catalog in case-sensitive lexical order, the
\* order of their code units: "B" (66) stands before "a" (97).
LexicalOrder == <<"Banana", "apple", "chard", "feed", "herb", "kale">>

\* Where a name stands in an order of the names.
rankIn(order, name) == CHOOSE i \in 1..Len(order) : order[i] = name

\* The list is ordered by descending score, then by descending reason
\* priority, then by the place of the product name in the order given.
orderedBy(recs, order) ==
  \A i, j \in 1..Len(recs) :
    i < j =>
      \/ recs[i].score > recs[j].score
      \/ /\ recs[i].score = recs[j].score
         /\ reasonPriority(recs[i].reason) > reasonPriority(recs[j].reason)
      \/ /\ recs[i].score = recs[j].score
         /\ reasonPriority(recs[i].reason) = reasonPriority(recs[j].reason)
         /\ rankIn(order, recs[i].product.name)
              <= rankIn(order, recs[j].product.name)

\* C18 as stated: the list the local computation returns is ordered by
\* descending score, then by reason priority (bought together > browsing
\* history > same tag > same category), then by the case-sensitive lexical
\* order of the product names.
C18_OrderedLexically == orderedBy(hook.localCompute, LexicalOrder)

\* C18 amended: the last criterion is the order localeCompare gives the
\* product names, in which "apple" stands before "Banana".
C18_OrderedByLocale == orderedBy(hook.localCompute, NameOrder)

\* C18 witness: the list, set as the recommendations, holds apple and
\* Banana with the same score and reason, apple first, among three entries
\* or more.
C18_Witness ==
  /\ hook.effect = "done" /\ hook.recommendations = hook.localCompute
  /\ Len(hook.localCompute) >= 3
  /\ \E i, j \in 1..Len(hook.localCompute) :
       /\ i < j
       /\ hook.localCompute[i].product.name = "apple"
       /\ hook.localCompute[j].product.name = "Banana"
       /\ hook.localCompute[i].score = hook.localCompute[j].score
       /\ hook.localCompute[i].reason = hook.localCompute[j].reason

----------------------------------------------------------------------------
(* Stale calls (SpecStale).                                                *)

----------------------------------------------------------------------------
(* Properties of the cart (Spec).                                           *)

IsMutation(op) == op \in {"addToCart", "removeFromCart", "updateQuantity"}

\* The lines of a list that carry the id.
LinesWithId(cartItems, id) ==
  {i \in 1..Len(cartItems) : StrictEq(cartItems[i].id, id)}

\* How often a value occurs in a sequence.
Count(s, x) == Cardinality({i \in 1..Len(s) : s[i] = x})

Range(s) == {s[i] : i \in 1..Len(s)}

\* C1: in every state reached from the empty cart by addToCart,
\* removeFromCart, updateQuantity and clearCart, no two lines of the cart
\* list have the same id.
C1_OneLinePerId ==
  \A i, j \in 1..Len(items) :
    i # j => ~StrictEq(items[i].id, items[j].id) /\ items[i].id # items[j].id

\* C1 witness: an add found the line of its id among several lines (the id
\* once given as a string, once as a number) and merged into it.
C1_Witness ==
  /\ last.op = "addToCart" /\ last.existing /\ last.arg.type = "string"
  /\ Len(items) >= 2
  /\ Len(items) = Len(last.before)

\* C2: in every state reached from the empty cart by addToCart (with any
\* integer quantity, zero and negative included), removeFromCart,
\* updateQuantity and clearCart, every line of the cart list has a quantity
\* greater than zero.
C2_QuantitiesPositive ==
  \A i \in 1..Len(items) : items[i].quantity > 0

\* C2 witness: an add with a negative quantity took an existing line to
\* zero, and the line is gone while another one stays.
C2_Witness ==
  /\ last.op = "addToCart" /\ last.quantity < 0 /\ last.existing
  /\ Len(items) = Len(last.before) - 1
  /\ Len(items) >= 1

\* C10: addToCart(p, q) with q > 0 on a cart with no line of p's normalized
\* id adds exactly one line, with that id (Number(p.id) whenever that is a
\* number) and quantity q, and every line the cart had is still there,
\* unchanged; on the empty cart the result is the one line.
C10_AddNewLine ==
  (last.op = "addToCart" /\ last.quantity > 0 /\ ~last.existing) =>
    /\ Len(items) = Len(last.before) + 1
    /\ Cardinality(LinesWithId(items, last.id)) = 1
    /\ \A i \in LinesWithId(items, last.id) :
         items[i].quantity = last.quantity
    /\ ~ToNumber(last.arg).nan => last.id = ToNumber(last.arg)
    /\ \A x \in Range(last.before) :
         Count(items, x) = Count(last.before, x)
    /\ last.before = <<>> =>
         /\ Len(items) = 1
         /\ items[1].id = last.id /\ items[1].quantity = last.quantity

\* C10 witness: a product with a string id was added with quantity 2 to a
\* cart that held only other lines.
C10_Witness ==
  /\ last.op = "addToCart" /\ last.quantity = 2 /\ ~last.existing
  /\ last.arg = RawString(<<"2">>) /\ last.id = Num(2)
  /\ Len(last.before) >= 1 /\ Len(items) = Len(last.before) + 1

\* The quantity of the line of a list that carries the id.
QuantityOf(cartItems, id) == cartItems[SelectSeqIdx(cartItems, id, 1)].quantity

\* C11 as stated: addToCart(p, q2) on a cart that holds a line of p's
\* normalized id with quantity q1 leaves exactly one line of that id, with
\* quantity q1 + q2, and the same number of lines, whatever q2 is.
C11_MergeAnyQuantity ==
  (last.op = "addToCart" /\ last.existing) =>
    /\ Cardinality(LinesWithId(items, last.id)) = 1
    /\ \A i \in LinesWithId(items, last.id) :
         items[i].quantity = QuantityOf(last.before, last.id) + last.quantity
    /\ Len(items) = Len(last.before)

\* C11 amended: the merge keeps one line of the id, with quantity q1 + q2
\* and the same number of lines, when q1 + q2 > 0; when q1 + q2 <= 0 the
\* normalizer drops the line and the list is one line shorter.  No other
\* line changes either way.
C11_MergeKeepsOrDrops ==
  (last.op = "addToCart" /\ last.existing) =>
    LET sum == QuantityOf(last.before, last.id) + last.quantity
        Others(s) == SelectSeq(s, LAMBDA it : ~StrictEq(it.id, last.id))
    IN /\ sum > 0 =>
            /\ Cardinality(LinesWithId(items, last.id)) = 1
            /\ \A i \in LinesWithId(items, last.id) : items[i].quantity = sum
            /\ Len(items) = Len(last.before)
       /\ sum <= 0 =>
            /\ LinesWithId(items, last.id) = {}
            /\ Len(items) = Len(last.before) - 1
       /\ SeqToBag(Others(items)) = SeqToBag(Others(last.before))

\* C11 witness: a second add of one unit merged into a line of quantity 1,
\* next to another line.
C11_Witness ==
  /\ last.op = "addToCart" /\ last.existing /\ last.quantity = 1
  /\ QuantityOf(last.before, last.id) = 1
  /\ Len(last.before) >= 2
  /\ \E i \in 1..Len(items) :
       StrictEq(items[i].id, last.id) /\ items[i].quantity = 2

\* The lines of a list whose id is another one.
LinesWithout(cartItems, id) ==
  SelectSeq(cartItems, LAMBDA it : ~StrictEq(it.id, id))

\* C23: on a cart reached by the cart operations, updateQuantity(id, q)
\* with q > 0 leaves one line of the id, the line as it was but with
\* quantity q, and every other line as it was, none added and none dropped;
\* when no line has the id the cart holds the lines it held, no line more
\* and no quantity changed.
C23_UpdateSetsQuantity ==
  (last.op = "updateQuantity" /\ last.quantity > 0) =>
    /\ Len(items) = Len(last.before)
    /\ SeqToBag(LinesWithout(items, last.id))
         = SeqToBag(LinesWithout(last.before, last.id))
    /\ last.existing =>
         /\ Cardinality(LinesWithId(items, last.id)) = 1
         /\ \A i \in LinesWithId(items, last.id) :
              items[i] = [last.before[SelectSeqIdx(last.before, last.id, 1)]
                            EXCEPT !.quantity = last.quantity]
    /\ ~last.existing =>
         /\ LinesWithId(items, last.id) = {}
         /\ SeqToBag(items) = SeqToBag(last.before)

\* C23 witness: an update took a line of quantity 1 to quantity 2 in a cart
\* of three lines, and the line stands at another place than before.
C23_Witness ==
  /\ last.op = "updateQuantity" /\ last.quantity = 2 /\ last.existing
  /\ QuantityOf(last.before, last.id) = 1
  /\ Len(last.before) = 3
  /\ SelectSeqIdx(items, last.id, 1) # SelectSeqIdx(last.before, last.id, 1)

\* C24: on a cart reached by the cart operations, removeFromCart(id)
\* leaves no line of the id and every line of another id as it was, with
\* its quantity; when no line has the id, the cart holds the lines it held.
C24_RemoveDropsOnlyTheLine ==
  last.op = "removeFromCart" =>
    /\ LinesWithId(items, last.id) = {}
    /\ SeqToBag(items) = SeqToBag(LinesWithout(last.before, last.id))
    /\ ~last.existing => SeqToBag(items) = SeqToBag(last.before)

\* C24 witness: a line was removed from a cart of three lines and the two
\* others stay.
C24_Witness ==
  /\ last.op = "removeFromCart" /\ last.existing
  /\ Len(last.before) = 3 /\ Len(items) = 2
  /\ \A i \in 1..2 : ~StrictEq(items[i].id, last.id)

\* C25: addToCart of a product whose id is no number, with a quantity
\* greater than zero, is carried out, and the line it adds has a negative id
\* that no line of the cart had: every such add, one right after another
\* included, makes the cart one line longer.
C25_SyntheticIdUnique ==
  (last.op = "addToCart" /\ ToNumber(last.arg).nan /\ last.quantity > 0) =>
    /\ ~last.id.nan /\ last.id.v < 0
    /\ ~last.existing
    /\ Len(items) = Len(last.before) + 1

----------------------------------------------------------------------------
(* updateQuantity against removeFromCart (SpecAnyCart).                    *)

\* C22: updateQuantity(id, q) with q <= 0 leaves the cart list that
\* removeFromCart(id) leaves, from any list of lines: the list without the
\* lines of the id, normalized.
C22_NonPositiveUpdateRemoves ==
  (last.op = "updateQuantity" /\ last.quantity <= 0) =>
    items = removeFromCartUpdater(last.before, last.id)

\* C22 witness: an update with a negative quantity took the line of its id
\* out of a list of two lines and left the other.
C22_Witness ==
  /\ last.op = "updateQuantity" /\ last.quantity < 0 /\ last.existing
  /\ Len(last.before) = 2 /\ Len(items) = 1
  /\ ~StrictEq(items[1].id, last.id)

----------------------------------------------------------------------------
(* Properties of the stored snapshot (SpecStorage, SpecLoad).              *)

\* C12: once clearCart has returned and the effects of its commit have run,
\* the cart list is empty and localStorage holds no "farm_cart" key.
C12_ClearRemovesSnapshot ==
  [][(last.op = "clearCart" /\ effects # <<>> /\ effects' = <<>>)
       => (items' = <<>> /\ ~storage'.present)]_vars

\* C13 as stated: after every addToCart, removeFromCart and updateQuantity
\* the stored snapshot comes to equal the serialization of the cart list,
\* the same lines in the same order.
C13_SnapshotCatchesUp ==
  (IsMutation(last.op) /\ effects # <<>>)
    ~> (effects = <<>> /\ storage = Stored(JsonStringify(items)))

\* C13 amended: after every addToCart, removeFromCart and updateQuantity
\* the persist effect of the new list runs; when its write succeeds the
\* stored snapshot equals the serialization of the cart list, and when
\* setItem throws the error is caught and the snapshot stays as it was.
C13_SnapshotCatchesUpUnlessCaught ==
  (IsMutation(last.op) /\ effects # <<>>)
    ~> /\ effects = <<>>
       /\ last.op \in {"persist", "persist caught"}
       /\ last.op = "persist" => storage = Stored(JsonStringify(items))

\* C13 witness: after a mutation the write went through for a cart of two
\* lines.
C13_Witness ==
  /\ last.op = "persist" /\ effects = <<>>
  /\ Len(items) = 2
  /\ storage = Stored(JsonStringify(items))

\* An element of a stored list that has the fields of a cart line.
IsLineObject(e) ==
  /\ e.t = "object"
  /\ {"id", "name", "price", "quantity"} \subseteq DOMAIN e.fields

\* The stored text does not parse, or parses to something that is not a
\* list of line objects.
Malformed(json) ==
  \/ json.t \notin {"array", "empty"}
  \/ /\ json.t = "array"
     /\ \E i \in 1..Len(json.elems) : ~IsLineObject(json.elems[i])

\* C14: over a malformed stored snapshot the load effect runs to its end
\* and leaves the cart list empty.
C14_MalformedLeavesEmpty ==
  (last.op \in {"load", "load caught"} /\ storage.present
     /\ Malformed(storage.value))
    => items = <<>>

\* C26: the list the load effect installs from a stored list of line
\* objects keeps the invariants of the cart: every quantity is greater than
\* zero, every id is a number and no two lines have the same id.
C26_LoadedListKeepsInvariants ==
  (/\ last.op = "load" /\ storage.present /\ storage.value.t = "array"
   /\ \A i \in 1..Len(storage.value.elems) :
        IsLineObject(storage.value.elems[i]))
    => /\ \A i \in 1..Len(items) :
            items[i].quantity > 0 /\ ~items[i].id.nan
       /\ \A i, j \in 1..Len(items) :
            i # j => ~StrictEq(items[i].id, items[j].id)

\* C27: a mount over a stored snapshot of one line or more does not lose
\* the cart, whether the effects of the mount run once or twice: in the end
\* the cart list holds the stored lines and the stored snapshot holds them
\* too, and both stay so.
C27_MountKeepsStoredCart ==
  \A c \in MountCarts :
    (last.op = "mount" /\ storage = Stored(JsonStringify(c)))
      ~> [](items = c /\ storage = Stored(JsonStringify(c)))

----------------------------------------------------------------------------
(* Properties of ApiClient.request (SpecApi).                              *)

\* C28: when the backend answers with a response that is not OK, request
\* rejects with an ApiError whose status is the HTTP status of the response
\* and, for a JSON response, whose errorCode and errors are those of the
\* body; status 0 stands for a failure without a response alone; and on a
\* 401 JSON response authToken and userData are gone from localStorage when
\* the error is thrown.
C28_ErrorCarriesHttpStatus ==
  last.op = "request" =>
    /\ (last.fetched # <<>> /\ ~IsOk(last.fetched[1])) =>
         /\ last.outcome.kind = "rejected"
         /\ last.outcome.error.name = "ApiError"
         /\ last.outcome.error.status = last.fetched[1].status
         /\ IsJson(last.fetched[1]) =>
              /\ last.outcome.error.errorCode
                   = FieldOf(last.fetched[1].json, "errorCode")
              /\ last.outcome.error.errors
                   = FieldOf(last.fetched[1].json, "errors")
    /\ (last.outcome.kind = "rejected" /\ last.outcome.error.status = 0) =>
         last.fetched = <<>>
    /\ (/\ last.fetched # <<>> /\ IsJson(last.fetched[1])
        /\ last.fetched[1].status = 401) =>
         ~session.authToken /\ ~session.userData

----------------------------------------------------------------------------
(* Properties of the normalizer (SpecNormalizer).                           *)

IsNormalized(op) == op \in {"optimizeCartItems", "optimizeCartItems twice"}

\* C7: the normalizer is idempotent, ties of efficiency included: the
\* second pass returns its input, itself the output of the first pass, as
\* the same ordered sequence.
C7_NormalizerIdempotent ==
  last.op = "optimizeCartItems twice" => last.ret = last.before

\* C7 witness: the second pass ran on a list in which two different lines
\* of equal efficiency stand next to each other.
C7_Witness ==
  /\ last.op = "optimizeCartItems twice"
  /\ \E i \in 1..(Len(last.ret) - 1) :
       /\ last.ret[i] # last.ret[i + 1]
       /\ last.ret[i].price * last.ret[i + 1].quantity
            = last.ret[i + 1].price * last.ret[i].quantity

\* C8: in the normalizer's output every line has an efficiency
\* price/quantity no greater than that of the line behind it (quantities
\* are positive, so the quotients compare as the cross products do).
C8_SortedByEfficiency ==
  IsNormalized(last.op) =>
    /\ items = last.ret
    /\ \A i \in 1..(Len(last.ret) - 1) :
         /\ last.ret[i].quantity > 0 /\ last.ret[i + 1].quantity > 0
         /\ last.ret[i].price * last.ret[i + 1].quantity
              <= last.ret[i + 1].price * last.ret[i].quantity

\* C8 witness: the normalizer put a list in order whose input was not.
C8_Witness ==
  /\ last.op = "optimizeCartItems"
  /\ Len(last.ret) >= 3
  /\ last.ret # last.before /\ Len(last.ret) = Len(last.before)
  /\ \E i \in 1..(Len(last.ret) - 1) :
       last.ret[i].price * last.ret[i + 1].quantity
         < last.ret[i + 1].price * last.ret[i].quantity

\* C9: the normalizer's output holds exactly the input lines whose quantity
\* is greater than zero: each of them as often as the input holds it,
\* unaltered, and no line whose quantity is zero or negative.
C9_KeepsExactlyPositive ==
  last.op = "optimizeCartItems" =>
    \A x \in Range(last.before) \cup Range(last.ret) :
      Count(last.ret, x) = IF x.quantity > 0 THEN Count(last.before, x)
                           ELSE 0

\* C9 witness: the input held a line of quantity zero or less and a line
\* of positive quantity twice.
C9_Witness ==
  /\ last.op = "optimizeCartItems"
  /\ \E x \in Range(last.before) : x.quantity <= 0
  /\ \E x \in Range(last.ret) : Count(last.ret, x) = 2

----------------------------------------------------------------------------
(* Properties of the packer (SpecPack).                                     *)

MaxWeightOf(options) == OrElse(options.maxWeightKg, DefaultMaxWeightKg)

MaxVolumeOf(options) == OrElse(options.maxVolumeCm3, DefaultMaxVolumeCm3)

\* The unit alone is more than a box carries.
Oversized(unit, options) ==
  \/ OrElse(unit.weightKg, 0) > MaxWeightOf(options)
  \/ OrElse(unit.volumeCm3, 0) > MaxVolumeOf(options)

\* C3: every box packForDelivery returns is within the weight and the
\* volume capacity unless it holds exactly one unit; a unit that alone
\* exceeds the capacity is alone in its box.
C3_BoxesWithinCapacity ==
  last.op = "packForDelivery" =>
    \A b \in 1..Len(last.ret) :
      LET box == last.ret[b]
      IN /\ \/ Len(box.items) = 1
            \/ /\ box.totalWeightKg <= MaxWeightOf(last.options)
               /\ box.totalVolumeCm3 <= MaxVolumeOf(last.options)
         /\ \A u \in 1..Len(box.items) :
              Oversized(box.items[u], last.options) => Len(box.items) = 1

\* C3 witness: the result has a box with one oversized unit in front of a
\* box with several units, one of them without weight and volume.
C3_Witness ==
  /\ last.op = "packForDelivery"
  /\ \E b, c \in 1..Len(last.ret) :
       /\ b < c
       /\ Len(last.ret[b].items) = 1
       /\ Oversized(last.ret[b].items[1], last.options)
       /\ Len(last.ret[c].items) >= 2
       /\ \E u \in 1..Len(last.ret[c].items) :
            /\ last.ret[c].items[u].weightKg = <<>>
            /\ last.ret[c].items[u].volumeCm3 = <<>>

\* The bag of the units in the boxes.
RECURSIVE UnitsInBoxes(_)
UnitsInBoxes(boxes) ==
  IF boxes = <<>> THEN EmptyBag
  ELSE SeqToBag(Head(boxes).items) (+) UnitsInBoxes(Tail(boxes))

\* The bag that holds, for each line of quantity N, N times the line with
\* quantity 1.
RECURSIVE UnitsOfCart(_)
UnitsOfCart(cartItems) ==
  IF cartItems = <<>> THEN EmptyBag
  ELSE LET it == Head(cartItems)
       IN [u \in {[it EXCEPT !.quantity = 1]} |-> it.quantity]
            (+) UnitsOfCart(Tail(cartItems))

\* C4: for a cart of lines with positive integer quantities, the units in
\* the boxes packForDelivery returns are, as a multiset, the lines expanded
\* into quantity-many copies of quantity 1: none lost, none twice.
C4_UnitsPreserved ==
  last.op = "packForDelivery" =>
    UnitsInBoxes(last.ret) = UnitsOfCart(last.before)

\* C4 witness: a cart of two lines, one of quantity 2, packed into more
\* than one box.
C4_Witness ==
  /\ last.op = "packForDelivery"
  /\ Len(last.before) = 2 /\ last.before[1].quantity = 2
  /\ last.before[1].id # last.before[2].id
  /\ Len(last.ret) >= 2

----------------------------------------------------------------------------
(* Properties of useRecommendations (SpecRec).                              *)

\* The product ids of the recommendations the hook returns, in order.
recommendedIds ==
  [i \in 1..Len(hook.recommendations) |->
     ToNumber(hook.recommendations[i].product.id)]

ZeroSize(unit) ==
  OrElse(unit.weightKg, 0) = 0 /\ OrElse(unit.volumeCm3, 0) = 0

\* The box is within the weight and the volume capacity.
WithinCapacity(box, options) ==
  /\ box.totalWeightKg <= MaxWeightOf(options)
  /\ box.totalVolumeCm3 <= MaxVolumeOf(options)

\* C19 as stated: every unit of zero weight and zero volume is placed into
\* box 1, whatever box 1 holds, an oversized unit included.
C19_ZeroUnitInBoxOne ==
  last.op = "packForDelivery" =>
    \A b \in 1..Len(last.ret) :
      \A u \in 1..Len(last.ret[b].items) :
        ZeroSize(last.ret[b].items[u]) => b = 1

\* C19 amended: every unit of zero weight and zero volume is placed into
\* the first box that is within capacity, whatever its fill level: box 1
\* unless box 1 holds an oversized unit, in which case the unit passes it by.
C19_ZeroUnitInFirstBoxWithin ==
  last.op = "packForDelivery" =>
    \A b \in 1..Len(last.ret) :
      \A u \in 1..Len(last.ret[b].items) :
        ZeroSize(last.ret[b].items[u]) =>
          /\ WithinCapacity(last.ret[b], last.options)
          /\ \A c \in 1..(b - 1) : ~WithinCapacity(last.ret[c], last.options)

\* C19 witness: box 1 holds an oversized unit and two units of zero weight
\* and volume share box 2.
C19_Witness ==
  /\ last.op = "packForDelivery"
  /\ Len(last.ret) >= 2
  /\ ~WithinCapacity(last.ret[1], last.options)
  /\ Len(last.ret[2].items) = 2
  /\ \A u \in 1..2 : ZeroSize(last.ret[2].items[u])

\* The sums of the weights and of the volumes of a list of units.
RECURSIVE SumWeight(_)
SumWeight(units) ==
  IF units = <<>> THEN 0
  ELSE OrElse(Head(units).weightKg, 0) + SumWeight(Tail(units))

RECURSIVE SumVolume(_)
SumVolume(units) ==
  IF units = <<>> THEN 0
  ELSE OrElse(Head(units).volumeCm3, 0) + SumVolume(Tail(units))

\* The sizing metric of the reference: the volume if present, else the
\* weight times 1000, else 0.
sizing(unit) ==
  IF unit.volumeCm3 # <<>> THEN unit.volumeCm3[1]
  ELSE IF unit.weightKg # <<>> THEN unit.weightKg[1] * 1000 ELSE 0

\* The lowest-numbered box, from box b on, that has room for the weight and
\* the volume of the unit; 0 when there is none.  A box is the list of its
\* units.
RECURSIVE firstRoom(_, _, _, _)
firstRoom(boxes, unit, b, options) ==
  IF b > Len(boxes) THEN 0
  ELSE IF /\ SumWeight(boxes[b]) + OrElse(unit.weightKg, 0)
               <= MaxWeightOf(options)
          /\ SumVolume(boxes[b]) + OrElse(unit.volumeCm3, 0)
               <= MaxVolumeOf(options)
       THEN b
  ELSE firstRoom(boxes, unit, b + 1, options)

\* Reference first-fit: the units in the order given, each into the
\* lowest-numbered box that has room, a new box when none has.
RECURSIVE firstFit(_, _, _)
firstFit(units, boxes, options) ==
  IF units = <<>> THEN boxes
  ELSE LET b == firstRoom(boxes, Head(units), 1, options)
       IN firstFit(Tail(units),
                   IF b = 0 THEN Append(boxes, <<Head(units)>>)
                   ELSE [boxes EXCEPT ![b] = Append(@, Head(units))],
                   options)

\* C20: packForDelivery is first-fit decreasing: the units are processed in
\* non-increasing order of the sizing metric, each goes into the
\* lowest-numbered box with room for its weight and its volume at that
\* moment, and a new box is opened only when no box has room; the boxes
\* are numbered in the order they were opened and carry the sums of their
\* units.
C20_FirstFitDecreasing ==
  last.op = "packForDelivery" =>
    LET order == bySizeDesc(expand(last.before))
    IN /\ SeqToBag(order) = UnitsOfCart(last.before)
       /\ \A i, j \in 1..Len(order) :
            i < j => sizing(order[i]) >= sizing(order[j])
       /\ [b \in 1..Len(last.ret) |-> last.ret[b].items]
            = firstFit(order, <<>>, last.options)
       /\ \A b \in 1..Len(last.ret) :
            /\ last.ret[b].boxId = b
            /\ last.ret[b].totalWeightKg = SumWeight(last.ret[b].items)
            /\ last.ret[b].totalVolumeCm3 = SumVolume(last.ret[b].items)

\* C20 witness: four units were packed into three boxes or more, and a box
\* other than the last holds two of them.
C20_Witness ==
  /\ last.op = "packForDelivery"
  /\ Len(expand(last.before)) = 4
  /\ Len(last.ret) >= 3
  /\ \E b \in 1..(Len(last.ret) - 1) : Len(last.ret[b].items) >= 2

\* The boxes of the last packing run after its first n units were placed.
boxesAfter(n) ==
  packUnits(bySizeDesc(expand(last.before)), n,
            MaxWeightOf(last.options), MaxVolumeOf(last.options))

\* The boxes carry the ids 1..n in the order of the list, none is empty and
\* each carries the sums of the weights and volumes of its units.
WellFormedBoxes(boxes) ==
  \A b \in 1..Len(boxes) :
    /\ boxes[b].boxId = b
    /\ boxes[b].items # <<>>
    /\ boxes[b].totalWeightKg = SumWeight(boxes[b].items)
    /\ boxes[b].totalVolumeCm3 = SumVolume(boxes[b].items)

\* Every box of the first list is a box of the second, at the same place,
\* its units a prefix of the units it holds there.
AppendOnly(boxes, later) ==
  /\ Len(boxes) <= Len(later)
  /\ \A b \in 1..Len(boxes) :
       /\ Len(boxes[b].items) <= Len(later[b].items)
       /\ SubSeq(later[b].items, 1, Len(boxes[b].items)) = boxes[b].items

\* C21: after every unit of a packing run, and in the result, the boxes
\* have the ids 1..n in the order they were opened, no box is empty, every
\* box carries the sums of its units, and the units a box held before a
\* step are still its first units, in the same order, after it.
C21_BoxesAppendOnly ==
  last.op = "packForDelivery" =>
    LET n == Len(expand(last.before))
    IN /\ last.ret = boxesAfter(n)
       /\ \A k \in 0..n : WellFormedBoxes(boxesAfter(k))
       /\ \A k \in 0..(n - 1) :
            /\ AppendOnly(boxesAfter(k), boxesAfter(k + 1))
            /\ Len(boxesAfter(k + 1)) \in {Len(boxesAfter(k)),
                                          Len(boxesAfter(k)) + 1}

\* C21 witness: a unit went into box 1 after box 2 had been opened.
C21_Witness ==
  /\ last.op = "packForDelivery"
  /\ \E k \in 0..(Len(expand(last.before)) - 1) :
       /\ Len(boxesAfter(k)) >= 2
       /\ Len(boxesAfter(k + 1)[1].items) > Len(boxesAfter(k)[1].items)

====
